---- MODULE Spec2Model ----
(***************************************************************************)
(* Session lifecycle manager of the WhatsApp multi-session gateway          *)
(* (src/unnamed/part_000, the variant with MAX_SESSIONS and sessionTimers). *)
(*                                                                         *)
(* The program is single-threaded JavaScript: a handler runs without       *)
(* interruption up to its next `await`, where it is suspended and any      *)
(* other handler, timer callback or transport event may run.  Every        *)
(* action below is one such uninterrupted run.  A suspended async call is  *)
(* an element of the bag `tasks`, holding the call's local variables and   *)
(* the await it is parked on (pc).                                         *)
(*                                                                         *)
(* The transport (Baileys socket), the credential store (Redis) and the    *)
(* notifier (socket.io) are external.  Their calls are modelled by the     *)
(* effect the code relies on, and every call the code wraps in try/catch   *)
(* or that returns a promise may fail: the outcome is an input of the      *)
(* action (\E ok \in BOOLEAN).  Assumption on the transport: a socket      *)
(* emits 'open' at most once, emits 'close' at most once, and is dead      *)
(* after it closed or after end() succeeded.                               *)
(***************************************************************************)
EXTENDS Integers, Sequences, FiniteSets, Bags, TLC

\* ---------------------------------------------------------------- bounds
Ids == {"a", "b"}
\* sockets (and the records created with them) that are referenced at once
MaxSocks == 2
\* async calls suspended at once
MaxTasks == 2
\* the capacity of the registry, which the program reads from its
\* environment (process.env.MAX_SESSIONS, 50 when unset)
MAX_SESSIONS == 1

\* ------------------------------------------------------------- constants
MAX_RECONNECT_ATTEMPTS == 5
PENDING_EXPIRE_MS == 2 * 60 * 1000
PairingDelayMs == 1200
RestartDelayMs == 2000
BaseBackoffMs == 2000
UnavailableBackoffMs == 5000
MaxBackoffMs == 30000

NULL == "null"
Handles == 1 .. MaxSocks
NoSock == 0
Phones == {NULL, "+1 555-0100"}

\* status codes of a close event; 0 stands for an absent or unlisted code
DisconnectReason ==
  [connectionClosed |-> 428, connectionLost |-> 408, timedOut |-> 408,
   connectionReplaced |-> 440, badSession |-> 500, loggedOut |-> 401,
   restartRequired |-> 515, multideviceMismatch |-> 411, forbidden |-> 403,
   unavailableService |-> 503]
Codes == {428, 408, 440, 500, 401, 515, 411, 403, 503, 0}

VARIABLES
  sessions,       \* registry: id -> handle of its record, NoSock when absent
  rec,            \* the record objects, one per socket ever created
  sock,           \* the transport connections
  sessionTimers,  \* id -> pending timers registered for the id
  tasks,          \* bag of suspended async calls
  store,          \* credential store: id -> persisted material present
  out,            \* what the last step emitted, called or returned, in order
  closures        \* history: transient closures of an id since its last open,
                  \* and the list of the last sessions:update

vars == <<sessions, rec, sock, sessionTimers, tasks, store, out, closures>>

\* ------------------------------------------------------------ the heap
FreeRec ==
  [status |-> "free", qr |-> NULL, pairingCode |-> NULL, createdAt |-> 0,
   connectedAt |-> NULL, phoneNumber |-> NULL, reconnectAttempts |-> 0,
   isReconnecting |-> FALSE]
\* phone: the phoneNumber argument of the startSession call that made the
\* socket, which the socket's listeners and timers close over
FreeSock == [id |-> "", phase |-> "free", listeners |-> FALSE, phone |-> NULL]

Live(sk, h) == sk[h].phase \in {"connecting", "open"}

\* the state as one value, so that the functions of the program compose
Cur ==
  [sessions |-> sessions, rec |-> rec, sock |-> sock,
   sessionTimers |-> sessionTimers, tasks |-> tasks, store |-> store,
   out |-> << >>, closures |-> closures]

\* handles some closure, record or live transport still refers to
InUse(st) ==
  {st.sessions[i] : i \in Ids}
    \cup {t.s : t \in BagToSet(st.tasks)}
    \cup UNION {{st.sessionTimers[i][k].s : k \in DOMAIN st.sessionTimers[i]} : i \in Ids}
    \cup {h \in Handles : Live(st.sock, h)}

\* Garbage collection.  A dead socket nothing refers to is forgotten.  A
\* record that left the registry never returns to it and is never read
\* again (closures only write its isReconnecting, and kill and logout keep
\* it for its identity), so its fields are forgotten too.
Collect(st) ==
  LET used == InUse(st)
      registered == {st.sessions[i] : i \in Ids}
  IN [st EXCEPT
        !.rec = [h \in Handles |-> IF h \in registered THEN st.rec[h] ELSE FreeRec],
        !.sock = [h \in Handles |-> IF h \in used THEN st.sock[h] ELSE FreeSock]]

Commit(st) ==
  LET n == Collect(st) IN
    /\ sessions' = n.sessions
    /\ rec' = n.rec
    /\ sock' = n.sock
    /\ sessionTimers' = n.sessionTimers
    /\ tasks' = n.tasks
    /\ store' = n.store
    /\ out' = n.out
    /\ closures' = n.closures

HasFreeSock(st) == \E h \in Handles : st.sock[h].phase = "free"
NewSock(st) ==
  CHOOSE h \in Handles :
    /\ st.sock[h].phase = "free"
    /\ \A g \in Handles : st.sock[g].phase = "free" => h <= g

CanSpawn(st, n) == BagCardinality(st.tasks) + n <= MaxTasks
Spawn(st, t) == [st EXCEPT !.tasks = @ (+) SetToBag({t})]
Finish(st, t) == [st EXCEPT !.tasks = @ (-) SetToBag({t})]
Move(st, t, u) == Spawn(Finish(st, t), u)

Task(kind, id, pc, s, phone, why) ==
  [kind |-> kind, id |-> id, pc |-> pc, s |-> s, phone |-> phone,
   why |-> why, purges |-> 0]

\* ------------------------------------------------------------ helpers
NoSnapshot == [i \in Ids |-> <<"-", FALSE, FALSE>>]
Event(ev, id, arg) == [ev |-> ev, id |-> id, arg |-> arg, snap |-> NoSnapshot]

emitToSession(st, id, ev, arg) ==
  [st EXCEPT !.out = Append(@, Event(ev, id, arg))]

\* a return value or HTTP answer, and a call of an external capability,
\* recorded in `out` beside the notifications
Respond(st, id, code) ==
  [st EXCEPT !.out = Append(@, Event("return", id, code))]

Call(st, id, what) ==
  [st EXCEPT !.out = Append(@, Event("call", id, what))]

\* what set the step off: a transport event delivered to a listener, a timer
\* or the sweep interval
Heard(st, id, what) ==
  [st EXCEPT !.out = Append(@, Event("event", id, what))]

Snapshot(st) ==
  [i \in Ids |->
     IF st.sessions[i] = NoSock THEN <<"absent", FALSE, FALSE>>
     ELSE LET r == st.rec[st.sessions[i]] IN
            <<r.status, r.qr # NULL, r.pairingCode # NULL>>]

\* what an observer holds when no record has been broadcast yet
EmptySnapshot == [i \in Ids |-> <<"absent", FALSE, FALSE>>]

\* (with the history switched on, closures.shown keeps the last list sent)
broadcastSessionStatus(st) ==
  [st EXCEPT !.out = Append(@, [Event("sessions:update", "*", "")
                                  EXCEPT !.snap = Snapshot(st)]),
             !.closures.shown = IF st.closures.on THEN Snapshot(st) ELSE @]

\* sessionTimers[id] lists the timers of the id that are still pending
\* a clearing that cancels nothing
clearSessionTimers_Keeps(st, id) == st
clearSessionTimers(st, id) == [st EXCEPT !.sessionTimers[id] = << >>]

addSessionTimer(st, id, timer) ==
  [st EXCEPT !.sessionTimers[id] = Append(@, timer)]

\* the list without its k-th element: the timer that fires is no longer pending
Without(seq, k) == [j \in 1 .. (Len(seq) - 1) |-> IF j < k THEN seq[j] ELSE seq[j + 1]]

Timer(kind, s, phone, delay) ==
  [kind |-> kind, s |-> s, phone |-> phone, delay |-> delay]

getDisconnectReasonName(code) ==
  CASE code = 428 -> "connectionClosed"
    [] code = 408 -> "connectionLost"
    [] code = 440 -> "connectionReplaced"
    [] code = 500 -> "badSession"
    [] code = 401 -> "loggedOut"
    [] code = 515 -> "restartRequired"
    [] code = 411 -> "multideviceMismatch"
    [] code = 403 -> "forbidden"
    [] code = 503 -> "unavailableService"
    [] OTHER -> "unknown"

\* The history variable counts, for behaviours that start with it switched
\* on, the transient closures an id's record went through since the id was
\* last opened or destroyed.  The program never reads it.
Min(a, b) == IF a <= b THEN a ELSE b
CountClosure(st, id) ==
  IF st.closures.on
    THEN [st EXCEPT !.closures.n[id] = Min(@ + 1, MAX_RECONNECT_ATTEMPTS + 1)]
    ELSE st
ResetClosures(st, id) ==
  IF st.closures.on THEN [st EXCEPT !.closures.n[id] = 0] ELSE st

\* cleanupSessionSocket, up to its await: the listeners go first, then
\* end() is called; when a call throws (ok = FALSE) the error is swallowed
\* and the transport is left as it was.
cleanupSessionSocket(st, h, ok) ==
  IF h = NoSock THEN st
  ELSE [st EXCEPT !.sock[h].listeners = FALSE,
                  !.sock[h].phase = IF ok /\ Live(st.sock, h) THEN "dead" ELSE @]

\* every close handling of the id that is under way (a suspended kill with
\* a terminal reason) sees one more purge invocation
CountPurge(st, id) ==
  LET bump(t) == IF t.kind = "kill" /\ t.why = "terminal" /\ t.id = id /\ t.purges < 2
                   THEN [t EXCEPT !.purges = @ + 1] ELSE t
      add(b, t) == b (+) [u \in {bump(t)} |-> CopiesIn(t, st.tasks)]
      RECURSIVE fold(_, _)
      fold(S, b) == IF S = {} THEN b
                    ELSE LET t == CHOOSE x \in S : TRUE IN fold(S \ {t}, add(b, t))
  IN [st EXCEPT !.tasks = fold(BagToSet(st.tasks), EmptyBag)]

\* cleanupSessionRedis, up to its await: deleteKeysWithPattern is invoked
cleanupSessionRedisCall(st, id) ==
  Call(CountPurge(st, id), id, "deleteKeysWithPattern")

\* ... and when the await ends: the keys are gone unless the call failed
cleanupSessionRedisDone(st, id, ok) ==
  IF ok THEN [st EXCEPT !.store[id] = FALSE] ELSE st

\* ------------------------------------------------------------ killSession
\* killSession up to its first await (inside cleanupSessionSocket); the
\* result is FALSE when the id has no record.
killSessionFound(st, id) == st.sessions[id] # NoSock

killSession(st, id, reason, why, sockOk) ==
  IF ~killSessionFound(st, id) THEN st
  ELSE LET s == st.sessions[id]
           a == emitToSession(st, id, "session:killed", reason)
           b == cleanupSessionSocket(a, s, sockOk)
       IN Spawn(b, Task("kill", id, "sock", s, NULL, why))

\* the socket cleanup returned: cleanupSessionRedis is called and awaited
killAfterSocket(st, t) ==
  cleanupSessionRedisCall(Move(st, t, [t EXCEPT !.pc = "redis"]), t.id)

\* the purge returned (or threw, which is swallowed): timers, registry,
\* broadcast
\* a destruction that leaves the record in the registry
killRemove_Keeps(st, id) == st
killRemove(st, id) == [st EXCEPT !.sessions[id] = NoSock]

killAfterRedis(st, t, redisOk) ==
  LET a == cleanupSessionRedisDone(st, t.id, redisOk)
      b == clearSessionTimers(a, t.id)
      c == killRemove(b, t.id)
      d == broadcastSessionStatus(c)
  IN Finish(Respond(ResetClosures(d, t.id), t.id, "kill:" \o t.why), t)

\* ------------------------------------------------------------ startSession
ActiveSessions(st) == Cardinality({i \in Ids : st.sessions[i] # NoSock})

\* a no-op test with the force flag inverted
startIsNoop_Forced(st, id, force) ==
  LET existing == st.sessions[id] IN
    existing # NoSock /\ force /\ st.rec[existing].status = "connected"
startIsNoop(st, id, force) ==
  LET existing == st.sessions[id] IN
    existing # NoSock /\ ~force /\ st.rec[existing].status = "connected"

\* a capacity test that admits one record too many
startIsRejected_OffByOne(st, id) ==
  st.sessions[id] = NoSock /\ ActiveSessions(st) > MAX_SESSIONS
startIsRejected(st, id) ==
  st.sessions[id] = NoSock /\ ActiveSessions(st) >= MAX_SESSIONS

\* startSession up to its first await
startSession(st0, id, phoneNumber, force, sockOk) ==
  LET st == Call(st0, id, IF force THEN "startSession:force" ELSE "startSession")
      existing == st.sessions[id]
  IN
    IF startIsNoop(st, id, force) THEN Respond(st, id, "start:noop")
    ELSE IF startIsRejected(st, id) THEN Respond(st, id, "start:max_sessions")
    ELSE IF existing # NoSock /\ force
      THEN Spawn(cleanupSessionSocket(st, existing, sockOk),
                 Task("start", id, "cleanup", existing, phoneNumber, "force"))
      ELSE Spawn(st, Task("start", id, "auth", existing, phoneNumber, "plain"))

\* whether startSession tears a live transport down (only then does the
\* outcome of the teardown matter)
TearsDown(st, id, force) ==
  st.sessions[id] # NoSock /\ force /\ Live(st.sock, st.sessions[id])

\* what startSession spawns, if anything (for the guards on the task bound)
startSuspends(st, id, force) == ~startIsNoop(st, id, force) /\ ~startIsRejected(st, id)

\* the forced teardown returned: timers cleared, record removed, then the
\* credential load is awaited
startAfterCleanup(st, t) ==
  LET a == clearSessionTimers(st, t.id)
      b == [a EXCEPT !.sessions[t.id] = NoSock]
  IN Move(b, t, [t EXCEPT !.pc = "auth"])

\* a record that ignores the phone number of the call
NewRecord_AlwaysQr(phoneNumber) ==
  [status |-> "pending_qr",
   qr |-> NULL, pairingCode |-> NULL, createdAt |-> 0, connectedAt |-> NULL,
   phoneNumber |-> phoneNumber, reconnectAttempts |-> 0,
   isReconnecting |-> FALSE]
NewRecord(phoneNumber) ==
  [status |-> IF phoneNumber # NULL THEN "pending_pair" ELSE "pending_qr",
   qr |-> NULL, pairingCode |-> NULL, createdAt |-> 0, connectedAt |-> NULL,
   phoneNumber |-> phoneNumber, reconnectAttempts |-> 0,
   isReconnecting |-> FALSE]

\* --------------------------------------------------------- restoreSessions
\* The pass is one suspended call: at "keys" it awaits mainRedis.keys('*:creds'),
\* at "start" the startSession of t.id, at "delay" the pause that follows it.
\* t.why names the keys the loop has still to visit: with at most two
\* persisted ids that is one id, or none ("").
KeysCode(keys) == IF keys = << >> THEN "" ELSE keys[1]
RestKeys(why) == IF why = "" THEN << >> ELSE <<why>>

\* the orders in which KEYS may list the persisted ids
KeyOrders(st) ==
  LET S == {i \in Ids : st.store[i]} IN
    {f \in [1 .. Cardinality(S) -> S] : \A j, k \in DOMAIN f : f[j] = f[k] => j = k}

\* after the try/catch: the broadcast that ends the pass
restoreEnd(st, r) == Finish(broadcastSessionStatus(st), r)

\* whether the loop starts the id of a key
restoreStarts(st, id) ==
  st.sessions[id] = NoSock /\ ActiveSessions(st) < MAX_SESSIONS

\* the for loop, from the head of `keys` to its next await
RECURSIVE restoreLoop(_, _, _)
restoreLoop(st, r, keys) ==
  IF keys = << >> THEN restoreEnd(st, r)
  ELSE IF restoreStarts(st, Head(keys))
    THEN Move(startSession(st, Head(keys), NULL, FALSE, TRUE), r,
              [r EXCEPT !.id = Head(keys), !.pc = "start",
                        !.why = KeysCode(Tail(keys))])
    ELSE restoreLoop(st, r, Tail(keys))

\* mainRedis.keys returned the keys, or threw
restoreKeys(st, r, keys, ok) ==
  IF ok THEN restoreLoop(st, r, keys) ELSE restoreEnd(st, r)

\* the awaited startSession returned (the pause is awaited next) or threw
\* (the catch is outside the loop)
restoreAfterStart(st, r, ok) ==
  IF ok THEN Move(st, r, [r EXCEPT !.pc = "delay"]) ELSE restoreEnd(st, r)

restoreAfterDelay(st, r) == restoreLoop(st, r, RestKeys(r.why))

\* the passes that await the startSession call t
Awaiting(st, t) ==
  {r \in BagToSet(st.tasks) :
     r.kind = "restore" /\ r.pc = "start" /\ r.id = t.id /\ t.why = "plain"}

\* startSession settles: a caller that awaits it goes on in the same turn
startReturns(st, t, ok) ==
  IF Awaiting(st, t) = {} THEN st
  ELSE restoreAfterStart(st, CHOOSE r \in Awaiting(st, t) : TRUE, ok)

\* the credential load returned: the socket is made, the record registered,
\* the listeners attached and the pairing timer set; `registered` is
\* sock.authState.creds.registered of the loaded material
startCreate(st, t, registered) ==
  LET h == NewSock(st)
      a == [st EXCEPT !.sock[h] = [id |-> t.id, phase |-> "connecting",
                                   listeners |-> TRUE, phone |-> t.phone],
                      !.rec[h] = NewRecord(t.phone),
                      !.sessions[t.id] = h]
      b == broadcastSessionStatus(a)
      c == IF t.phone # NULL /\ ~registered
             THEN addSessionTimer(b, t.id, Timer("pairing", h, t.phone, PairingDelayMs))
             ELSE b
  IN startReturns(Finish(Respond(c, t.id, "created:" \o t.why), t), t, TRUE)

\* the credential load or makeWASocket threw: startSession rejects
startFailed(st, t) ==
  startReturns(Finish(Respond(st, t.id, "failed:" \o t.why), t), t, FALSE)

\* ------------------------------------------------------ connectionListener
\* The listener attached to socket h by the startSession call that made it.
\* It looks the record up by id (sessions[sessionId]) each time it runs;
\* phoneNumber is the one of that startSession call.
ListenerId(st, h) == st.sock[h].id
ListenerPhone(st, h) == st.sock[h].phone

\* a qr handler that stores the payload whatever the status of the record
onQr_AnyStatus(st, h) ==
  LET id == ListenerId(st, h)
      s == st.sessions[id]
  IN IF s = NoSock THEN st
     ELSE IF st.rec[s].status # "pending_qr" THEN [st EXCEPT !.rec[s].qr = "QR"]
     ELSE Spawn([st EXCEPT !.rec[s].qr = "QR"],
                Task("qr", id, "render", s, NULL, ""))
\* u = { qr }: the payload is stored, then QRCode.toDataURL is awaited
onQr(st, h) ==
  LET id == ListenerId(st, h)
      s == st.sessions[id]
  IN IF s = NoSock \/ st.rec[s].status # "pending_qr" THEN st
     ELSE Spawn([st EXCEPT !.rec[s].qr = "QR"],
                Task("qr", id, "render", s, NULL, ""))
onQrSuspends(st, h) ==
  LET s == st.sessions[ListenerId(st, h)] IN
    s # NoSock /\ st.rec[s].status = "pending_qr"

qrRendered(st, t, ok) ==
  IF ok THEN Finish(broadcastSessionStatus(emitToSession(st, t.id, "qr:update", "")), t)
  ELSE Finish(st, t)

\* an open handler that keeps the count of failed attempts and the guard
onOpen_KeepsAttempts(st, h) ==
  LET id == ListenerId(st, h)
      s == st.sessions[id]
  IN IF s = NoSock THEN st
     ELSE LET a == [st EXCEPT !.rec[s].status = "connected",
                              !.rec[s].connectedAt = "set",
                              !.rec[s].createdAt = 0,
                              !.rec[s].qr = NULL,
                              !.rec[s].pairingCode = NULL]
          IN ResetClosures(
               broadcastSessionStatus(emitToSession(a, id, "session:connected", "")), id)

\* u = { connection: 'open' }
onOpen(st, h) ==
  LET id == ListenerId(st, h)
      s == st.sessions[id]
  IN IF s = NoSock THEN st
     ELSE LET a == [st EXCEPT !.rec[s].status = "connected",
                              !.rec[s].connectedAt = "set",
                              !.rec[s].createdAt = 0,
                              !.rec[s].qr = NULL,
                              !.rec[s].pairingCode = NULL,
                              !.rec[s].reconnectAttempts = 0,
                              !.rec[s].isReconnecting = FALSE]
          IN ResetClosures(
               broadcastSessionStatus(emitToSession(a, id, "session:connected", "")), id)

\* the disconnect classification of the close handler
isTerminal(code) ==
  code \in {DisconnectReason.loggedOut, DisconnectReason.badSession,
            DisconnectReason.forbidden, DisconnectReason.multideviceMismatch,
            DisconnectReason.connectionReplaced}
\* a classification that does not know the service-unavailable code
isTemporary_Narrow(code) ==
  code \in {DisconnectReason.connectionLost, DisconnectReason.timedOut,
            DisconnectReason.connectionClosed}
isTemporary(code) ==
  code \in {DisconnectReason.connectionLost, DisconnectReason.timedOut,
            DisconnectReason.connectionClosed, DisconnectReason.unavailableService}
isRestartRequired(code) == code = DisconnectReason.restartRequired

\* a delay that uses the ordinary base interval for every code
Backoff_SameBase(attempts, code) == Min(attempts * BaseBackoffMs, MaxBackoffMs)
Backoff(attempts, code) ==
  LET baseBackoff == IF code = DisconnectReason.unavailableService
                       THEN UnavailableBackoffMs ELSE BaseBackoffMs
  IN Min(attempts * baseBackoff, MaxBackoffMs)

\* the temporary-error branch
\* a temporary branch that schedules its retry twice
onTemporaryClose_TwoTimers(st, h, s, code, sockOk) ==
  LET id == ListenerId(st, h)
      n == st.rec[s].reconnectAttempts + 1
      a == CountClosure([st EXCEPT !.rec[s].reconnectAttempts = n], id)
      tm == Timer("backoff", s, ListenerPhone(st, h), Backoff(n, code))
  IN IF n <= MAX_RECONNECT_ATTEMPTS
       THEN addSessionTimer(addSessionTimer([a EXCEPT !.rec[s].isReconnecting = TRUE], id, tm),
                            id, tm)
       ELSE killSession(a, id, "max_reconnect_attempts", "max_reconnect_attempts", sockOk)
\* a temporary branch with no budget: the first closure destroys the record
onTemporaryClose_NoBudget(st, h, s, code, sockOk) ==
  LET id == ListenerId(st, h)
      n == st.rec[s].reconnectAttempts + 1
      a == CountClosure([st EXCEPT !.rec[s].reconnectAttempts = n], id)
  IN killSession(a, id, "max_reconnect_attempts", "max_reconnect_attempts", sockOk)
onTemporaryClose(st, h, s, code, sockOk) ==
  LET id == ListenerId(st, h)
      n == st.rec[s].reconnectAttempts + 1
      a == CountClosure([st EXCEPT !.rec[s].reconnectAttempts = n], id)
  IN IF n <= MAX_RECONNECT_ATTEMPTS
       THEN addSessionTimer([a EXCEPT !.rec[s].isReconnecting = TRUE], id,
                            Timer("backoff", s, ListenerPhone(st, h), Backoff(n, code)))
       ELSE killSession(a, id, "max_reconnect_attempts", "max_reconnect_attempts", sockOk)

\* the restart-required branch
\* a restart-required close that spends the reconnectAttempts budget
onRestartRequired_Counts(st, h, s) ==
  addSessionTimer([st EXCEPT !.rec[s].isReconnecting = TRUE,
                             !.rec[s].reconnectAttempts = Min(@ + 1, MAX_RECONNECT_ATTEMPTS + 1)],
                  ListenerId(st, h),
                  Timer("restart", s, ListenerPhone(st, h), RestartDelayMs))
onRestartRequired(st, h, s) ==
  addSessionTimer([st EXCEPT !.rec[s].isReconnecting = TRUE], ListenerId(st, h),
                  Timer("restart", s, ListenerPhone(st, h), RestartDelayMs))

\* a close handler that gives every terminal close the same reason
onClose_PlainReason(st, h, code, sockOk) ==
  LET id == ListenerId(st, h)
      s == st.sessions[id]
  IN IF s = NoSock THEN st
     ELSE IF st.rec[s].isReconnecting THEN st
     ELSE IF isTerminal(code)
       THEN killSession(st, id, "terminal_" \o getDisconnectReasonName(DisconnectReason.loggedOut),
                        "terminal", sockOk)
     ELSE IF isTemporary(code) THEN onTemporaryClose(st, h, s, code, sockOk)
     ELSE IF isRestartRequired(code) THEN onRestartRequired(st, h, s)
     ELSE st
\* a close handler without the guard on isReconnecting
onClose_NoGuard(st, h, code, sockOk) ==
  LET id == ListenerId(st, h)
      s == st.sessions[id]
  IN IF s = NoSock THEN st
     ELSE IF isTerminal(code)
       THEN killSession(st, id, "terminal_" \o getDisconnectReasonName(code),
                        "terminal", sockOk)
     ELSE IF isTemporary(code) THEN onTemporaryClose(st, h, s, code, sockOk)
     ELSE IF isRestartRequired(code) THEN onRestartRequired(st, h, s)
     ELSE st
\* a close handler that retries after a close it cannot classify
onClose_RetriesUnknown(st, h, code, sockOk) ==
  LET id == ListenerId(st, h)
      s == st.sessions[id]
  IN IF s = NoSock THEN st
     ELSE IF st.rec[s].isReconnecting THEN st
     ELSE IF isTerminal(code)
       THEN killSession(st, id, "terminal_" \o getDisconnectReasonName(code),
                        "terminal", sockOk)
     ELSE IF isTemporary(code) THEN onTemporaryClose(st, h, s, code, sockOk)
     ELSE onRestartRequired(st, h, s)
\* u = { connection: 'close', lastDisconnect }
onClose(st, h, code, sockOk) ==
  LET id == ListenerId(st, h)
      s == st.sessions[id]
  IN IF s = NoSock THEN st
     ELSE IF st.rec[s].isReconnecting THEN st
     ELSE IF isTerminal(code)
       THEN killSession(st, id, "terminal_" \o getDisconnectReasonName(code),
                        "terminal", sockOk)
     ELSE IF isTemporary(code) THEN onTemporaryClose(st, h, s, code, sockOk)
     ELSE IF isRestartRequired(code) THEN onRestartRequired(st, h, s)
     ELSE st

\* whether the close handler calls killSession (which suspends)
onCloseKills(st, h, code) ==
  LET s == st.sessions[ListenerId(st, h)] IN
    /\ s # NoSock
    /\ ~st.rec[s].isReconnecting
    /\ \/ isTerminal(code)
       \/ isTemporary(code) /\ st.rec[s].reconnectAttempts + 1 > MAX_RECONNECT_ATTEMPTS

\* the transport closes socket h and tells its listeners, if it has any
transportClosed(st, h, code, sockOk) ==
  LET a == [st EXCEPT !.sock[h].phase = "dead"] IN
    IF st.sock[h].listeners
      THEN onClose(Heard(a, st.sock[h].id, "close:" \o getDisconnectReasonName(code)),
                   h, code, sockOk)
      ELSE a

\* whether the close makes killSession tear down a live transport: the one
\* of the id's record, when it is another socket than the one that closed
closeTearsDown(st, h, code) ==
  /\ st.sock[h].listeners
  /\ onCloseKills(st, h, code)
  /\ st.sessions[st.sock[h].id] # h
  /\ Live(st.sock, st.sessions[st.sock[h].id])

\* ------------------------------------------------------------ timers
\* the callback of the backoff timer
backoffFires(st, id, tm, sockOk) ==
  IF st.sessions[id] # NoSock /\ ~st.rec[st.sessions[id]].isReconnecting
    THEN startSession([st EXCEPT !.rec[tm.s].isReconnecting = FALSE],
                      id, tm.phone, TRUE, sockOk)
    ELSE st
backoffRestarts(st, id) ==
  st.sessions[id] # NoSock /\ ~st.rec[st.sessions[id]].isReconnecting

\* the callback of the restart-required timer
restartFires(st, id, tm, sockOk) ==
  IF st.sessions[id] # NoSock
    THEN startSession([st EXCEPT !.rec[tm.s].isReconnecting = FALSE],
                      id, tm.phone, TRUE, sockOk)
    ELSE st

\* the callback of the pairing timer, up to its await of requestPairingCode
pairingFires(st, id, tm) ==
  Spawn(Call(st, id, "requestPairingCode"), Task("pair", id, "request", tm.s, tm.phone, ""))

\* a failure handler that gives the session up
pairingAnswered_DropsOnError(st, t, ok) ==
  LET s == st.sessions[t.id] IN
    IF ~ok THEN Finish(emitToSession([st EXCEPT !.sessions[t.id] = NoSock],
                                     t.id, "pairing:error", ""), t)
    ELSE IF s = NoSock THEN Finish(st, t)
    ELSE Finish(broadcastSessionStatus(
                  emitToSession([st EXCEPT !.rec[s].pairingCode = "CODE"],
                                t.id, "pairing:code", "")), t)
pairingAnswered(st, t, ok) ==
  LET s == st.sessions[t.id] IN
    IF ~ok THEN Finish(emitToSession(st, t.id, "pairing:error", ""), t)
    ELSE IF s = NoSock THEN Finish(st, t)
    ELSE Finish(broadcastSessionStatus(
                  emitToSession([st EXCEPT !.rec[s].pairingCode = "CODE"],
                                t.id, "pairing:code", "")), t)

\* ------------------------------------------------------------ expiry sweep
StartsWithPending(status) == status \in {"pending_qr", "pending_pair"}
Now == 0
ClockStepMs == PENDING_EXPIRE_MS
OldestMs == Now - 2 * ClockStepMs

\* an expiry test that only looks at sessions waiting for a QR scan
Expired_QrOnly(st, id) ==
  LET s == st.sessions[id] IN
    /\ s # NoSock
    /\ st.rec[s].status = "pending_qr"
    /\ Now - st.rec[s].createdAt > PENDING_EXPIRE_MS
Expired(st, id) ==
  LET s == st.sessions[id] IN
    /\ s # NoSock
    /\ StartsWithPending(st.rec[s].status)
    /\ Now - st.rec[s].createdAt > PENDING_EXPIRE_MS

RECURSIVE sweepLoop(_, _, _)
sweepLoop(st, todo, oks) ==
  IF todo = {} THEN st
  ELSE LET id == CHOOSE i \in todo : TRUE IN
         sweepLoop(IF Expired(st, id)
                     THEN killSession(st, id, "pending_expired", "pending_expired", oks[id])
                     ELSE st,
                   todo \ {id}, oks)

\* a sweep that drops the expired records from the registry and does no more
sweep_Unregisters(st0, oks) ==
  LET st == Heard(st0, "*", "sweep")
      a == [st EXCEPT !.sessions = [i \in Ids |-> IF Expired(st, i) THEN NoSock
                                                  ELSE st.sessions[i]]]
  IN IF \E id \in Ids : Expired(st, id) THEN broadcastSessionStatus(a) ELSE a
sweep(st0, oks) ==
  LET st == Heard(st0, "*", "sweep")
      a == sweepLoop(st, Ids, oks) IN
    IF \E id \in Ids : Expired(st, id) THEN broadcastSessionStatus(a) ELSE a

\* time passes: every timestamp is one clock step further in the past
tick(st) ==
  [st EXCEPT !.rec = [h \in Handles |->
     IF st.rec[h].status = "free" THEN st.rec[h]
     ELSE [st.rec[h] EXCEPT !.createdAt =
             IF @ - ClockStepMs < OldestMs THEN OldestMs ELSE @ - ClockStepMs]]]

\* ------------------------------------------------------------ logout route
\* GET /logout/:id up to its await of sock.logout()
logoutRoute(st, id) ==
  LET s == st.sessions[id] IN
    IF s = NoSock THEN Respond(st, id, "logout:success")
    ELSE Spawn(Call(st, id, "logout"), Task("logout", id, "logout", s, NULL, ""))

\* sock.logout() returned: the transport has invalidated the credential and
\* closed itself with the logged-out code; the route goes on to the purge
logoutReturned(st, t, sockOk) ==
  LET a == IF Live(st.sock, t.s)
             THEN transportClosed(st, t.s, DisconnectReason.loggedOut, sockOk)
             ELSE st
  IN cleanupSessionRedisCall(Move(a, t, [t EXCEPT !.pc = "redis"]), t.id)

\* sock.logout() threw: the route handler is abandoned
logoutThrew(st, t) == Finish(Respond(st, t.id, "logout:threw"), t)

logoutAfterRedis(st, t, redisOk) ==
  LET a == cleanupSessionRedisDone(st, t.id, redisOk)
      b == clearSessionTimers(a, t.id)
      c == [b EXCEPT !.sessions[t.id] = NoSock]
      d == broadcastSessionStatus(c)
  IN Finish(Respond(ResetClosures(d, t.id), t.id, "logout:success"), t)

\* ------------------------------------------------ POST /send-message
\* valid: sessionId, number and message are all in the body; user: the
\* transport of the record has a logged-in user (session.sock?.user)
sendAccepted(st, id, valid, user) ==
  /\ valid
  /\ st.sessions[id] # NoSock
  /\ st.rec[st.sessions[id]].status = "connected"
  /\ user

\* the route up to its first await (sendPresenceUpdate 'composing')
sendMessageRoute(st, id, valid, user) ==
  IF ~valid THEN Respond(st, id, "send:400")
  ELSE IF st.sessions[id] = NoSock THEN Respond(st, id, "SESSION_NOT_FOUND")
  ELSE IF st.rec[st.sessions[id]].status # "connected" \/ ~user
    THEN Respond(st, id, "SESSION_NOT_CONNECTED")
  ELSE Spawn(Call(st, id, "sendPresenceUpdate"),
             Task("send", id, "composing", st.sessions[id], NULL, ""))

\* a send failure that throws the session back to pending
sendFailed_Unpairs(st, t) ==
  LET a == IF st.sessions[t.id] # NoSock
             THEN [st EXCEPT !.rec[st.sessions[t.id]].status = "pending_qr"]
             ELSE st
  IN Finish(Respond(emitToSession(a, t.id, "message:error", ""), t.id, "send:500"), t)
\* the catch of the route: an awaited call threw
sendFailed(st, t) ==
  Finish(Respond(emitToSession(st, t.id, "message:error", ""), t.id, "send:500"), t)

\* an awaited call of the route returned
sendAdvances(st, t) ==
  CASE t.pc = "composing" -> Move(st, t, [t EXCEPT !.pc = "delay"])
    [] t.pc = "delay" -> Move(Call(st, t.id, "sendMessage"), t, [t EXCEPT !.pc = "send"])
    [] t.pc = "send" ->
         Move(Call(st, t.id, "sendPresenceUpdate"), t, [t EXCEPT !.pc = "paused"])
    [] t.pc = "paused" ->
         Finish(Respond(emitToSession(st, t.id, "message:sent", ""), t.id, "send:200"), t)

\* ------------------------------------------------- subscribe:session
\* socket.emit: an event sent to the subscribing observer alone
emitToSocket(st, id, ev) ==
  [st EXCEPT !.out = Append(@, Event(ev, id, "socket"))]

\* the handler of subscribe:session: a stored qr is rendered first (the
\* promise is not awaited), a stored pairing code is sent at once
subscribeSession(st, id) ==
  LET s == st.sessions[id]
      a == IF s # NoSock /\ st.rec[s].qr # NULL
             THEN Spawn(st, Task("replay", id, "render", s, NULL, ""))
             ELSE st
  IN IF s # NoSock /\ st.rec[s].pairingCode # NULL
       THEN emitToSocket(a, id, "pairing:code")
       ELSE a
subscribeRenders(st, id) ==
  st.sessions[id] # NoSock /\ st.rec[st.sessions[id]].qr # NULL

\* QRCode.toDataURL settled: the callback of then() sends the picture; a
\* rejection has no handler
replayRendered(st, t, ok) ==
  IF ok THEN Finish(emitToSocket(st, t.id, "qr:update"), t) ELSE Finish(st, t)

\* ------------------------------------------------------------ the actions
TypeOK ==
  /\ sessions \in [Ids -> Handles \cup {NoSock}]
  /\ \A h \in Handles : sock[h].phase \in {"free", "connecting", "open", "dead"}
  /\ BagCardinality(tasks) <= MaxTasks

Init ==
  /\ sessions = [i \in Ids |-> NoSock]
  /\ rec = [h \in Handles |-> FreeRec]
  /\ sock = [h \in Handles |-> FreeSock]
  /\ sessionTimers = [i \in Ids |-> << >>]
  /\ tasks = EmptyBag
  /\ store = [i \in Ids |-> FALSE]
  /\ out = << >>
  /\ closures = [on |-> FALSE, n |-> [i \in Ids |-> 0], shown |-> EmptySnapshot]

TasksAt(kind, pc) == {t \in BagToSet(tasks) : t.kind = kind /\ t.pc = pc}

\* GET /start/:id; the route calls startSession only when the id has no record
ApiStart(I, P) ==
  \E id \in I, phone \in P :
    /\ sessions[id] = NoSock
    /\ startSuspends(Cur, id, FALSE) => CanSpawn(Cur, 1)
    /\ Commit(startSession(Cur, id, phone, FALSE, TRUE))

\* startSession called directly by the layer above, with any arguments
CallStart(I, P) ==
  \E id \in I, phone \in P, force \in BOOLEAN, sockOk \in BOOLEAN :
    /\ startSuspends(Cur, id, force) => CanSpawn(Cur, 1)
    /\ TearsDown(Cur, id, force) \/ sockOk
    /\ Commit(startSession(Cur, id, phone, force, sockOk))

\* a refresh that starts the session of an id that has no record
ApiRefresh_StartsAbsent(I) ==
  \E id \in I, sockOk \in BOOLEAN :
    /\ CanSpawn(Cur, 1)
    /\ TearsDown(Cur, id, TRUE) \/ sockOk
    /\ Commit(startSession(Heard(Cur, id, "request:refresh"), id,
                           IF sessions[id] = NoSock THEN NULL
                           ELSE rec[sessions[id]].phoneNumber,
                           TRUE, sockOk))
\* POST /session/:id/refresh
ApiRefresh(I) ==
  \E id \in I, sockOk \in BOOLEAN :
    IF sessions[id] = NoSock
      THEN sockOk /\ Commit(Respond(Heard(Cur, id, "request:refresh"), id, "SESSION_NOT_FOUND"))
      ELSE /\ CanSpawn(Cur, 1)
           /\ TearsDown(Cur, id, TRUE) \/ sockOk
           /\ Commit(startSession(Heard(Cur, id, "request:refresh"), id,
                                  rec[sessions[id]].phoneNumber, TRUE, sockOk))

\* DELETE /session/:id
ApiDelete(I) ==
  \E id \in I, sockOk \in BOOLEAN :
    IF ~killSessionFound(Cur, id)
      THEN sockOk /\ Commit(Respond(Heard(Cur, id, "request:delete"), id, "SESSION_NOT_FOUND"))
      ELSE /\ CanSpawn(Cur, 1)
           /\ TearsDown(Cur, id, TRUE) \/ sockOk
           /\ Commit(killSession(Heard(Cur, id, "request:delete"), id,
                                 "api_delete", "api_delete", sockOk))

\* GET /logout/:id
ApiLogout(I) ==
  \E id \in I :
    /\ sessions[id] # NoSock => CanSpawn(Cur, 1)
    /\ Commit(logoutRoute(Cur, id))

StartCleaned ==
  \E t \in TasksAt("start", "cleanup") : Commit(startAfterCleanup(Cur, t))

StartLoaded ==
  \E t \in TasksAt("start", "auth"), registered \in BOOLEAN :
    /\ HasFreeSock(Cur)
    /\ registered => store[t.id]
    /\ Commit(startCreate(Cur, t, registered))

StartLoadFailed ==
  \E t \in TasksAt("start", "auth") : Commit(startFailed(Cur, t))

KillSocketClosed ==
  \E t \in TasksAt("kill", "sock") : Commit(killAfterSocket(Cur, t))

KillPurged ==
  \E t \in TasksAt("kill", "redis"), redisOk \in BOOLEAN :
    Commit(killAfterRedis(Cur, t, redisOk))

LogoutReturned ==
  \E t \in TasksAt("logout", "logout"), sockOk \in BOOLEAN :
    /\ (Live(sock, t.s) /\ sock[t.s].listeners
          /\ onCloseKills(Cur, t.s, DisconnectReason.loggedOut)) => CanSpawn(Cur, 1)
    /\ (Live(sock, t.s) /\ closeTearsDown(Cur, t.s, DisconnectReason.loggedOut)) \/ sockOk
    /\ Commit(logoutReturned(Cur, t, sockOk))

LogoutThrew ==
  \E t \in TasksAt("logout", "logout") : Commit(logoutThrew(Cur, t))

LogoutPurged ==
  \E t \in TasksAt("logout", "redis"), redisOk \in BOOLEAN :
    Commit(logoutAfterRedis(Cur, t, redisOk))

TransportQr ==
  \E h \in Handles :
    /\ sock[h].phase = "connecting" /\ sock[h].listeners
    /\ onQrSuspends(Cur, h) => CanSpawn(Cur, 1)
    /\ Commit(onQr(Heard(Cur, sock[h].id, "qr"), h))

QrRendered ==
  \E t \in TasksAt("qr", "render"), ok \in BOOLEAN : Commit(qrRendered(Cur, t, ok))

TransportOpen ==
  \E h \in Handles :
    /\ sock[h].phase = "connecting" /\ sock[h].listeners
    /\ Commit(onOpen(Heard([Cur EXCEPT !.sock[h].phase = "open"], sock[h].id, "open"), h))

TransportClose(C) ==
  \E h \in Handles, code \in C, sockOk \in BOOLEAN :
    /\ Live(sock, h)
    /\ (sock[h].listeners /\ onCloseKills(Cur, h, code)) => CanSpawn(Cur, 1)
    /\ closeTearsDown(Cur, h, code) \/ sockOk
    /\ Commit(transportClosed(Cur, h, code, sockOk))

\* 'creds.update': saveCreds writes the material of the socket's id
CredsUpdate ==
  \E h \in Handles :
    /\ Live(sock, h) /\ sock[h].listeners
    /\ Commit([Cur EXCEPT !.store[sock[h].id] = TRUE])

TimerFires ==
  \E id \in Ids, sockOk \in BOOLEAN :
    \E k \in DOMAIN sessionTimers[id] :
      LET tm == sessionTimers[id][k]
          a == Heard([Cur EXCEPT !.sessionTimers[id] = Without(@, k)],
                     id, "timer:" \o tm.kind)
      IN
        CASE tm.kind = "pairing" ->
               /\ sockOk
               /\ CanSpawn(Cur, 1)
               /\ Commit(pairingFires(a, id, tm))
          [] tm.kind = "backoff" ->
               /\ backoffRestarts(Cur, id) => CanSpawn(Cur, 1)
               /\ (backoffRestarts(Cur, id) /\ TearsDown(Cur, id, TRUE)) \/ sockOk
               /\ Commit(backoffFires(a, id, tm, sockOk))
          [] tm.kind = "restart" ->
               /\ sessions[id] # NoSock => CanSpawn(Cur, 1)
               /\ TearsDown(Cur, id, TRUE) \/ sockOk
               /\ Commit(restartFires(a, id, tm, sockOk))

\* requestPairingCode settles: it returns a code or throws
PairingAnswered ==
  \E t \in TasksAt("pair", "request"), ok \in BOOLEAN :
    Commit(pairingAnswered(
             Heard(Cur, t.id, IF ok THEN "pairing:resolved" ELSE "pairing:rejected"), t, ok))

Sweep ==
  \E oks \in [Ids -> BOOLEAN] :
    /\ \A id \in Ids : (Expired(Cur, id) /\ TearsDown(Cur, id, TRUE)) \/ oks[id]
    /\ CanSpawn(Cur, Cardinality({id \in Ids : Expired(Cur, id)}))
    /\ Commit(sweep(Cur, oks))

Tick ==
  /\ \E h \in Handles : StartsWithPending(rec[h].status) /\ rec[h].createdAt > OldestMs
  /\ Commit(tick(Cur))

\* POST /send-message
ApiSend(I) ==
  \E id \in I, valid \in BOOLEAN, user \in BOOLEAN :
    /\ sendAccepted(Cur, id, valid, user) => CanSpawn(Cur, 1)
    /\ Commit(sendMessageRoute(Heard(Cur, id, "request:send"), id, valid, user))

SendAdvances ==
  \E t \in BagToSet(tasks) :
    /\ t.kind = "send"
    /\ Commit(sendAdvances(Cur, t))

\* the delay cannot fail; the three calls of the transport can
SendFails ==
  \E t \in BagToSet(tasks) :
    /\ t.kind = "send" /\ t.pc # "delay"
    /\ Commit(sendFailed(Cur, t))

\* an observer sends subscribe:session for the id
Subscribe(I) ==
  \E id \in I :
    /\ subscribeRenders(Cur, id) => CanSpawn(Cur, 1)
    /\ Commit(subscribeSession(Heard(Cur, id, "subscribe"), id))

ReplayRendered ==
  \E t \in TasksAt("replay", "render"), ok \in BOOLEAN :
    Commit(replayRendered(Cur, t, ok))

\* main(): restoreSessions runs before the HTTP server listens
RestoreKeys ==
  \E r \in TasksAt("restore", "keys"), ok \in BOOLEAN :
    \E keys \in KeyOrders(Cur) :
      /\ CanSpawn(Cur, 1)
      /\ Commit(restoreKeys(Cur, r, keys, ok))

RestoreDelayed ==
  \E r \in TasksAt("restore", "delay") :
    /\ CanSpawn(Cur, 1)
    /\ Commit(restoreAfterDelay(Cur, r))

\* httpServer.listen is called when the pass has ended
Listening == ~\E r \in BagToSet(tasks) : r.kind = "restore"
ApiDeleteServed == Listening /\ ApiDelete(Ids)

OneId == {"a"}
NoPhone == {NULL}

\* the lifecycle of one session started without a phone number
Next ==
  \/ ApiStart(OneId, NoPhone) \/ ApiRefresh(OneId) \/ ApiDelete(OneId)
  \/ StartCleaned \/ StartLoaded \/ StartLoadFailed
  \/ KillSocketClosed \/ KillPurged
  \/ TransportOpen \/ TransportClose(Codes)
  \/ TimerFires

Spec == Init /\ [][Next]_vars

NextAll ==
  \/ ApiStart(Ids, Phones) \/ ApiRefresh(Ids) \/ ApiDelete(Ids) \/ ApiLogout(Ids)
  \/ StartCleaned \/ StartLoaded \/ StartLoadFailed
  \/ KillSocketClosed \/ KillPurged
  \/ LogoutReturned \/ LogoutThrew \/ LogoutPurged
  \/ TransportQr \/ QrRendered \/ TransportOpen \/ TransportClose(Codes) \/ CredsUpdate
  \/ TimerFires \/ PairingAnswered
  \/ Sweep \/ Tick

SpecAll == Init /\ [][NextAll]_vars

\* one close code of each class of the classifier
SomeCodes ==
  {DisconnectReason.loggedOut, DisconnectReason.connectionLost,
   DisconnectReason.restartRequired}

\* the same with the layer above calling startSession with any arguments
NextSurface ==
  \/ CallStart(OneId, NoPhone) \/ ApiDelete(OneId)
  \/ StartCleaned \/ StartLoaded \/ StartLoadFailed
  \/ KillSocketClosed \/ KillPurged
  \/ TransportOpen \/ TransportClose(SomeCodes)
  \/ TimerFires

SpecSurface == Init /\ [][NextSurface]_vars

\* one session with the logout route
NextLogout ==
  \/ ApiStart(OneId, NoPhone) \/ ApiLogout(OneId) \/ ApiDelete(OneId)
  \/ StartLoaded \/ StartLoadFailed
  \/ KillSocketClosed \/ KillPurged
  \/ LogoutReturned \/ LogoutThrew \/ LogoutPurged
  \/ TransportOpen \/ TransportClose(SomeCodes)
  \/ TimerFires

SpecLogout == Init /\ [][NextLogout]_vars

\* two ids competing for a registry of MAX_SESSIONS records
NextCapacity ==
  \/ ApiStart(Ids, NoPhone) \/ ApiRefresh(Ids) \/ ApiDelete(Ids)
  \/ StartCleaned \/ StartLoaded \/ StartLoadFailed
  \/ KillSocketClosed \/ KillPurged
  \/ TransportOpen

SpecCapacity == Init /\ [][NextCapacity]_vars

\* pending sessions ageing under the expiry sweep
NextSweep ==
  \/ ApiStart(OneId, Phones)
  \/ StartLoaded \/ StartLoadFailed
  \/ KillSocketClosed \/ KillPurged
  \/ TransportOpen \/ TransportClose({DisconnectReason.connectionLost})
  \/ TimerFires \/ PairingAnswered
  \/ Sweep \/ Tick

SpecSweep == Init /\ [][NextSweep]_vars

\* repeated outages of one session, with the closures counted
TransientCodes == {c \in Codes : isTemporary(c)}
InitCounting ==
  /\ sessions = [i \in Ids |-> NoSock]
  /\ rec = [h \in Handles |-> FreeRec]
  /\ sock = [h \in Handles |-> FreeSock]
  /\ sessionTimers = [i \in Ids |-> << >>]
  /\ tasks = EmptyBag
  /\ store = [i \in Ids |-> FALSE]
  /\ out = << >>
  /\ closures = [on |-> TRUE, n |-> [i \in Ids |-> 0], shown |-> EmptySnapshot]

NextOutages ==
  \/ ApiStart(OneId, NoPhone) \/ ApiRefresh(OneId)
  \/ StartCleaned \/ StartLoaded
  \/ TransportOpen \/ TransportClose(TransientCodes \cup {DisconnectReason.restartRequired})
  \/ TimerFires

SpecOutages == InitCounting /\ [][NextOutages]_vars

\* the boot of the server over a store that holds credentials
InitRestore ==
  /\ sessions = [i \in Ids |-> NoSock]
  /\ rec = [h \in Handles |-> FreeRec]
  /\ sock = [h \in Handles |-> FreeSock]
  /\ sessionTimers = [i \in Ids |-> << >>]
  /\ tasks = SetToBag({Task("restore", "*", "keys", NoSock, NULL, "")})
  /\ store \in [Ids -> BOOLEAN]
  /\ out = << >>
  /\ closures = [on |-> FALSE, n |-> [i \in Ids |-> 0], shown |-> EmptySnapshot]

NextRestore ==
  \/ RestoreKeys \/ RestoreDelayed
  \/ StartLoaded \/ StartLoadFailed
  \/ KillSocketClosed \/ KillPurged
  \/ TransportOpen \/ CredsUpdate
  \/ Sweep \/ Tick
  \/ ApiDeleteServed

SpecRestore == InitRestore /\ [][NextRestore]_vars

\* messages sent through one session while its connection comes and goes
NextSend ==
  \/ ApiStart(OneId, NoPhone) \/ ApiDelete(OneId)
  \/ StartLoaded
  \/ KillSocketClosed \/ KillPurged
  \/ TransportOpen
  \/ TransportClose({DisconnectReason.loggedOut, DisconnectReason.connectionLost})
  \/ TimerFires
  \/ ApiSend(OneId) \/ SendAdvances \/ SendFails
SpecSend == Init /\ [][NextSend]_vars

\* requests that name an id while the registry holds another, or none
NextNotFound ==
  \/ ApiStart(Ids, NoPhone) \/ ApiRefresh(Ids) \/ ApiDelete(Ids)
  \/ StartCleaned \/ StartLoaded
  \/ KillSocketClosed \/ KillPurged
  \/ TransportOpen
  \/ ApiSend(Ids) \/ SendAdvances \/ SendFails
SpecNotFound == Init /\ [][NextNotFound]_vars

\* observers that subscribe to a session while it pairs
NextSubscribe ==
  \/ ApiStart(OneId, Phones) \/ ApiDelete(OneId)
  \/ StartLoaded \/ StartLoadFailed
  \/ KillSocketClosed \/ KillPurged
  \/ TransportQr \/ QrRendered \/ TransportOpen
  \/ TimerFires \/ PairingAnswered
  \/ Subscribe(OneId) \/ ReplayRendered
SpecSubscribe == Init /\ [][NextSubscribe]_vars

\* one session as its observers see it, with the last broadcast kept
NextObserved ==
  \/ ApiStart(OneId, Phones) \/ ApiRefresh(OneId) \/ ApiDelete(OneId)
  \/ StartCleaned \/ StartLoaded \/ StartLoadFailed
  \/ KillSocketClosed \/ KillPurged
  \/ TransportQr \/ QrRendered \/ TransportOpen
  \/ TimerFires \/ PairingAnswered
SpecObserved == InitCounting /\ [][NextObserved]_vars

\* one session that pairs, opens, loses its connection and is restarted
NextReconnect ==
  \/ ApiStart(OneId, Phones) \/ ApiRefresh(OneId)
  \/ StartCleaned \/ StartLoaded
  \/ TransportQr \/ QrRendered \/ TransportOpen
  \/ TransportClose({DisconnectReason.connectionLost})
  \/ TimerFires \/ PairingAnswered
SpecReconnect == Init /\ [][NextReconnect]_vars

\* sessions pairing by QR code or by pairing code
NextPairing ==
  \/ ApiStart(OneId, Phones) \/ ApiDelete(OneId)
  \/ StartLoaded \/ StartLoadFailed
  \/ KillSocketClosed \/ KillPurged
  \/ TransportQr \/ QrRendered \/ TransportOpen \/ CredsUpdate
  \/ TimerFires \/ PairingAnswered

SpecPairing == Init /\ [][NextPairing]_vars

\* ================================================================ properties
Has(o, ev, id, arg) ==
  \E k \in DOMAIN o : o[k].ev = ev /\ o[k].id = id /\ o[k].arg = arg

TerminalNames ==
  {"loggedOut", "badSession", "forbidden", "multideviceMismatch", "connectionReplaced"}
TransientNames == {"connectionLost", "connectionClosed", "unavailableService"}

\* the step delivers a close of the class to a listener of the id
HeardClose(o, id, names) == \E n \in names : Has(o, "event", id, "close:" \o n)

\* the step ends a suspended call (one copy of t leaves the bag for good)
Gone(t) == CopiesIn(t, tasks') < CopiesIn(t, tasks)

Program == <<sessions, rec, sock, sessionTimers, tasks, store>>

\* ---------------------------------------------------------------- C1
\* C1: at every instant every live transport of an id is the one held by
\* the id's record, so an id never has two, nor one without a record.
C1_OneLiveTransportPerId ==
  \A h \in Handles : Live(sock, h) => sessions[sock[h].id] = h

\* ---------------------------------------------------------------- C2
KillEnds(t, why) ==
  /\ t.kind = "kill" /\ t.why = why /\ t.pc = "redis"
  /\ Gone(t)
  /\ Has(out', "return", t.id, "kill:" \o why)

PurgeCalls(o, id) ==
  Cardinality({k \in DOMAIN o : /\ o[k].ev = "call" /\ o[k].id = id
                                /\ o[k].arg = "deleteKeysWithPattern"})

\* C2 as stated: a terminal close delivered for an id that has a record is
\* handled by destroying the record, and when the handling finishes the
\* record is absent and the purge was invoked exactly once for the id.
C2_TerminalClosePurgesExactlyOnce ==
  [][/\ \A id \in Ids :
          (HeardClose(out', id, TerminalNames) /\ sessions[id] # NoSock)
            => \E n \in TerminalNames : Has(out', "session:killed", id, "terminal_" \o n)
     /\ \A t \in BagToSet(tasks) :
          KillEnds(t, "terminal") => (sessions'[t.id] = NoSock /\ t.purges = 1)]_vars

\* C2 amended: for a record whose isReconnecting is false the close starts
\* the destruction; the handling itself invokes the purge exactly once
\* (when it resumes after the socket cleanup, and never again), so that at
\* least one purge was invoked when it finishes, and the record is absent
\* then.  A logout or kill of the same id adds its own purge.
C2_TerminalCloseDestroysAndPurges ==
  [][/\ \A id \in Ids :
          (/\ HeardClose(out', id, TerminalNames)
           /\ sessions[id] # NoSock
           /\ ~rec[sessions[id]].isReconnecting)
            => /\ \E n \in TerminalNames : Has(out', "session:killed", id, "terminal_" \o n)
               /\ \E t \in BagToSet(tasks') :
                    /\ t.kind = "kill" /\ t.why = "terminal" /\ t.id = id
                    /\ t.s = sessions[id] /\ t.pc = "sock"
     /\ \A t \in BagToSet(tasks) :
          (t.kind = "kill" /\ t.why = "terminal" /\ t.pc = "sock"
             /\ \E u \in BagToSet(tasks') :
                  /\ u = [t EXCEPT !.pc = "redis", !.purges = u.purges]
                  /\ CopiesIn(u, tasks') > CopiesIn(u, tasks))
            => PurgeCalls(out', t.id) = 1
     /\ \A t \in BagToSet(tasks) :
          KillEnds(t, "terminal")
            => /\ sessions'[t.id] = NoSock
               /\ t.purges >= 1
               /\ PurgeCalls(out', t.id) = 0]_vars

C2_Witness ==
  /\ Has(out, "return", "a", "kill:terminal")
  /\ sessions["a"] = NoSock

\* ---------------------------------------------------------------- C3
\* C3: when the backoff timer of an id fires and the id still has a record,
\* the callback invokes start(id, phone, force = true).
C3_BackoffTimerRestarts ==
  [][\A id \in Ids :
       (Has(out', "event", id, "timer:backoff") /\ sessions[id] # NoSock)
         => Has(out', "call", id, "startSession:force")]_vars

\* ---------------------------------------------------------------- C4
\* C4: once an id has gone through more than MAX_RECONNECT_ATTEMPTS
\* transient closures in a row with no open in between, its record is
\* destroyed (absent, or being killed for max_reconnect_attempts).
C4_DestroyedAfterMaxClosures ==
  \A id \in Ids :
    closures.n[id] > MAX_RECONNECT_ATTEMPTS
      => \/ sessions[id] = NoSock
         \/ \E t \in BagToSet(tasks) :
              t.kind = "kill" /\ t.id = id /\ t.why = "max_reconnect_attempts"

\* ---------------------------------------------------------------- C5
\* C5: handling one transient close for a record whose isReconnecting is
\* false adds exactly 1 to its reconnectAttempts and, when the new count is
\* at most MAX_RECONNECT_ATTEMPTS, schedules exactly one timer, a backoff
\* timer of that record.
C5_TransientCloseCountsOnce ==
  [][\A id \in Ids :
       (/\ HeardClose(out', id, TransientNames)
        /\ sessions[id] # NoSock
        /\ ~rec[sessions[id]].isReconnecting)
         => LET s == sessions[id] IN
              /\ sessions'[id] = s
              /\ rec'[s].reconnectAttempts = rec[s].reconnectAttempts + 1
              /\ rec'[s].reconnectAttempts <= MAX_RECONNECT_ATTEMPTS
                   => /\ Len(sessionTimers'[id]) = Len(sessionTimers[id]) + 1
                      /\ SubSeq(sessionTimers'[id], 1, Len(sessionTimers[id]))
                           = sessionTimers[id]
                      /\ sessionTimers'[id][Len(sessionTimers'[id])].kind = "backoff"
                      /\ sessionTimers'[id][Len(sessionTimers'[id])].s = s]_vars

C5_Witness ==
  /\ HeardClose(out, "a", TransientNames)
  /\ sessions["a"] # NoSock
  /\ rec[sessions["a"]].reconnectAttempts = 1
  /\ Len(sessionTimers["a"]) = 1
  /\ sessionTimers["a"][1].kind = "backoff"

\* ---------------------------------------------------------------- C6
ForcedStartEnds(t) ==
  t.kind = "start" /\ t.why = "force" /\ t.pc = "auth" /\ Gone(t)

FreshRecordFor(t) ==
  /\ sessions'[t.id] \notin {NoSock, t.s}
  /\ rec'[sessions'[t.id]].reconnectAttempts = 0
  /\ Live(sock', sessions'[t.id])

\* C6: a forced start of an id that has a record always ends with a record
\* of the id whose reconnectAttempts is 0 and whose transport is a live one,
\* another than the previous record held.
C6_ForcedStartAlwaysYieldsFreshRecord ==
  [][\A t \in BagToSet(tasks) : ForcedStartEnds(t) => FreshRecordFor(t)]_vars

\* ---------------------------------------------------------------- C7
\* C7: start(id, phone, force = false) on an id whose record is connected
\* changes nothing: registry, records, transports, timers, suspended calls
\* and credential store stay as they are, and the call returns at once.
C7_StartOnConnectedIsNoop ==
  [][\A id \in Ids :
       (/\ Has(out', "call", id, "startSession")
        /\ sessions[id] # NoSock
        /\ rec[sessions[id]].status = "connected")
         => /\ Program' = Program
            /\ Has(out', "return", id, "start:noop")]_vars

C7_Witness ==
  /\ Has(out, "call", "a", "startSession")
  /\ Has(out, "return", "a", "start:noop")
  /\ sessions["a"] # NoSock
  /\ rec[sessions["a"]].status = "connected"

\* ---------------------------------------------------------------- C8
RegistrySize == Cardinality({i \in Ids : sessions[i] # NoSock})

\* C8: a start for an id with no record, made while the registry holds
\* MAX_SESSIONS records, is rejected: no record, no transport, no suspended
\* call is created and the registry is unchanged.
C8_StartAtCapacityRejected ==
  [][\A id \in Ids :
       (/\ Has(out', "call", id, "startSession") \/ Has(out', "call", id, "startSession:force")
        /\ sessions[id] = NoSock
        /\ RegistrySize >= MAX_SESSIONS)
         => /\ Program' = Program
            /\ Has(out', "return", id, "start:max_sessions")]_vars

C8_Witness ==
  /\ Has(out, "return", "b", "start:max_sessions")
  /\ sessions["b"] = NoSock
  /\ sessions["a"] # NoSock
  /\ RegistrySize = MAX_SESSIONS

\* ---------------------------------------------------------------- C9
\* C9: a forced start of an id that has a record is never rejected by the
\* capacity limit: with the registry at MAX_SESSIONS or beyond the call goes
\* on to the teardown, and it ends with a record of the id made anew.
C9_RestartNotBlockedByCapacity ==
  [][/\ \A id \in Ids :
          (/\ Has(out', "call", id, "startSession:force")
           /\ sessions[id] # NoSock
           /\ RegistrySize >= MAX_SESSIONS)
            => /\ ~Has(out', "return", id, "start:max_sessions")
               /\ \E t \in BagToSet(tasks') :
                    /\ t.kind = "start" /\ t.why = "force" /\ t.id = id
                    /\ t.s = sessions[id] /\ t.pc = "cleanup"
                    /\ CopiesIn(t, tasks') > CopiesIn(t, tasks)
     /\ \A t \in BagToSet(tasks) :
          ForcedStartEnds(t) => sessions'[t.id] \notin {NoSock, t.s}]_vars

\* ---------------------------------------------------------------- C10
Old(id) ==
  /\ sessions[id] # NoSock
  /\ rec[sessions[id]].status \in {"pending_qr", "pending_pair"}
  /\ Now - rec[sessions[id]].createdAt > 2 * 60 * 1000

\* C10: a sweep tick starts the destruction of every record that is pending
\* and more than two minutes old when it runs, and when that destruction
\* completes the id has no record.
C10_SweepDestroysExpired ==
  [][/\ Has(out', "event", "*", "sweep")
          => \A id \in Ids :
               Old(id) => \E t \in BagToSet(tasks') :
                            /\ t.kind = "kill" /\ t.why = "pending_expired"
                            /\ t.id = id /\ t.s = sessions[id]
                            /\ CopiesIn(t, tasks') > CopiesIn(t, tasks)
     /\ \A t \in BagToSet(tasks) :
          KillEnds(t, "pending_expired") => sessions'[t.id] = NoSock]_vars

C10_Witness ==
  /\ Has(out, "return", "a", "kill:pending_expired")
  /\ sessions["a"] = NoSock

\* ---------------------------------------------------------------- C11
\* C11: the destruction the expiry sweep started never removes a record
\* whose status is connected at the moment it is removed.
C11_SweepNeverRemovesConnected ==
  [][\A t \in BagToSet(tasks) :
       (KillEnds(t, "pending_expired") /\ sessions[t.id] # NoSock)
         => rec[sessions[t.id]].status # "connected"]_vars

\* ---------------------------------------------------------------- C12
\* the step begins a killSession of the id's record (a new suspended kill)
KillBegins(u) ==
  /\ u.kind = "kill" /\ u.pc = "sock" /\ u.purges = 0
  /\ CopiesIn(u, tasks') > CopiesIn(u, tasks)

\* the step resumes kill t after the socket cleanup, into the purge
KillResumes(t) ==
  /\ t.kind = "kill" /\ t.pc = "sock"
  /\ \E u \in BagToSet(tasks') :
       /\ u = [t EXCEPT !.pc = "redis", !.purges = u.purges]
       /\ CopiesIn(u, tasks') > CopiesIn(u, tasks)

KillReason(u, name) ==
  IF u.why = "terminal" THEN name \in {"terminal_" \o n : n \in TerminalNames}
  ELSE name = u.why

\* C12: killSession on an id that has a record emits 'session:killed' with
\* the reason, goes on to invoke the credential purge for the id whether or
\* not the transport was closed, and ends, whether or not the purge failed,
\* with no timer of the id pending and no record of the id registered.
C12_KillAlwaysCompletes ==
  [][/\ \A u \in BagToSet(tasks') :
          KillBegins(u)
            => /\ sessions[u.id] = u.s /\ u.s # NoSock
               /\ \E k \in DOMAIN out' :
                    /\ out'[k].ev = "session:killed" /\ out'[k].id = u.id
                    /\ KillReason(u, out'[k].arg)
     /\ \A t \in BagToSet(tasks) :
          KillResumes(t) => PurgeCalls(out', t.id) = 1
     /\ \A t \in BagToSet(tasks) :
          (t.kind = "kill" /\ KillEnds(t, t.why))
            => /\ sessions'[t.id] = NoSock
               /\ sessionTimers'[t.id] = << >>]_vars

\* a kill has ended although the transport it was to close is still live
C12_Witness ==
  /\ Has(out, "return", "a", "kill:api_delete")
  /\ sessions["a"] = NoSock
  /\ sessionTimers["a"] = << >>
  /\ \E h \in Handles : Live(sock, h) /\ sock[h].id = "a" /\ ~sock[h].listeners

\* ---------------------------------------------------------------- C13
\* the step ends the logout call t: it leaves the bag and no later stage of
\* it enters
LogoutEnds(t) ==
  /\ t.kind = "logout"
  /\ Gone(t)
  /\ ~\E u \in BagToSet(tasks') :
        /\ u.kind = "logout" /\ u.id = t.id /\ u.s = t.s
        /\ CopiesIn(u, tasks') > CopiesIn(u, tasks)

\* C13: a logout of an id that has a record ends, also when the transport's
\* logout call fails, after the credential purge of the id was invoked and
\* with no record of the id registered.
C13_LogoutAlwaysCleansUp ==
  [][\A t \in BagToSet(tasks) :
       LogoutEnds(t) => (t.pc = "redis" /\ sessions'[t.id] = NoSock)]_vars

\* ---------------------------------------------------------------- C14
\* a destruction of the id's record is under way (suspended on the
\* transport teardown or on the credential purge)
Destroying(id) ==
  \E t \in BagToSet(tasks) :
    /\ t.kind \in {"kill", "logout"} /\ t.id = id
    /\ t.s = sessions[id]

\* the timer of the id that fires in the step
FiringTimers(id) ==
  {sessionTimers[id][k] : k \in {j \in DOMAIN sessionTimers[id] :
                                   sessionTimers'[id] = Without(sessionTimers[id], j)}}

\* C14: a timer scheduled by a record that is being destroyed does nothing
\* that would bring a record of the id back or touch a later one: when it
\* fires while the destruction is suspended, it neither invokes startSession
\* nor asks for a pairing code.
C14_TimersOfDestroyedRecordAreInert ==
  [][\A id \in Ids :
       (/\ \E kind \in {"pairing", "backoff", "restart"} :
              Has(out', "event", id, "timer:" \o kind)
        /\ Destroying(id)
        /\ \E tm \in FiringTimers(id) : tm.s = sessions[id])
         => /\ ~Has(out', "call", id, "startSession:force")
            /\ ~Has(out', "call", id, "requestPairingCode")]_vars

\* ---------------------------------------------------------------- C15
RestartTimers(id) ==
  {k \in DOMAIN sessionTimers[id] : sessionTimers[id][k].kind \in {"backoff", "restart"}}

\* C15: at any time an id has at most one pending restart timer (backoff or
\* restart-required).
C15_AtMostOneRestartTimer ==
  \A id \in Ids : Cardinality(RestartTimers(id)) <= 1

\* ---------------------------------------------------------------- C16
\* C16: no registered record has both a QR payload and a pairing code.
C16_QrAndPairingCodeExclusive ==
  \A id \in Ids :
    sessions[id] # NoSock
      => ~(rec[sessions[id]].qr # NULL /\ rec[sessions[id]].pairingCode # NULL)

\* ---------------------------------------------------------------- C17
\* C17: every registered record whose status is connected has connectedAt
\* set and neither a QR payload nor a pairing code.
C17_ConnectedRecordIsClean ==
  \A id \in Ids :
    (sessions[id] # NoSock /\ rec[sessions[id]].status = "connected")
      => /\ rec[sessions[id]].connectedAt # NULL
         /\ rec[sessions[id]].qr = NULL
         /\ rec[sessions[id]].pairingCode = NULL

\* ---------------------------------------------------------------- C18
AllNames == TerminalNames \cup TransientNames \cup {"restartRequired", "unknown"}

\* C18: a close of any class delivered while the id's record has
\* isReconnecting set changes nothing: the registry, the records (so
\* reconnectAttempts), the timers, the suspended calls and the store stay as
\* they are, and no purge is invoked.
C18_CloseWhileReconnectingIgnored ==
  [][\A id \in Ids :
       (/\ HeardClose(out', id, AllNames)
        /\ sessions[id] # NoSock
        /\ rec[sessions[id]].isReconnecting)
         => /\ sessions' = sessions
            /\ rec' = rec
            /\ sessionTimers' = sessionTimers
            /\ tasks' = tasks
            /\ store' = store
            /\ PurgeCalls(out', id) = 0
            /\ Len(out') = 1]_vars

C18_Witness ==
  /\ HeardClose(out, "a", TerminalNames)
  /\ sessions["a"] # NoSock
  /\ rec[sessions["a"]].isReconnecting
  /\ rec[sessions["a"]].reconnectAttempts = 1
  /\ Len(sessionTimers["a"]) = 1

\* ---------------------------------------------------------------- C19
\* the restart timers of the id that the step takes off the list and runs
FiringRestart(id) == {tm \in FiringTimers(id) : tm.kind = "restart"}

\* C19: a restart-required close handled while the id's record has
\* isReconnecting false sets the flag, leaves reconnectAttempts and every
\* other field as they were and appends exactly one restart timer with the
\* fixed delay; when that timer fires and the id still has a record, the flag
\* the close set is cleared (on the record the close was handled on, which is
\* the id's record unless it was replaced meanwhile) and
\* start(id, phone, force = true) is invoked and begins a forced restart.
C19_RestartRequiredRestartsOnce ==
  [][\A id \in Ids :
       /\ (/\ HeardClose(out', id, {"restartRequired"})
           /\ sessions[id] # NoSock
           /\ ~rec[sessions[id]].isReconnecting)
            => /\ sessions' = sessions
               /\ rec' = [rec EXCEPT ![sessions[id]].isReconnecting = TRUE]
               /\ rec'[sessions[id]].reconnectAttempts
                    = rec[sessions[id]].reconnectAttempts
               /\ \E tm \in {Timer("restart", sessions[id], p, RestartDelayMs) :
                               p \in Phones} :
                    sessionTimers' = [sessionTimers EXCEPT
                                        ![id] = Append(@, tm)]
               /\ tasks' = tasks
               /\ PurgeCalls(out', id) = 0
       /\ (/\ Has(out', "event", id, "timer:restart")
           /\ sessions[id] # NoSock)
            => /\ Has(out', "call", id, "startSession:force")
               /\ \E tm \in FiringRestart(id) :
                    /\ ~rec'[tm.s].isReconnecting
                    /\ tm.s = sessions[id] => sessions'[id] = sessions[id]
               /\ \E t \in BagToSet(tasks') :
                    /\ t.kind = "start" /\ t.id = id /\ t.why = "force"
                    /\ CopiesIn(t, tasks') > CopiesIn(t, tasks)]_vars

C19_Witness ==
  /\ Has(out, "event", "a", "timer:restart")
  /\ Has(out, "call", "a", "startSession:force")
  /\ sessions["a"] # NoSock
  /\ ~rec[sessions["a"]].isReconnecting
  /\ rec[sessions["a"]].reconnectAttempts = 0
  /\ \E t \in BagToSet(tasks) :
       t.kind = "start" /\ t.id = "a" /\ t.why = "force" /\ t.s = sessions["a"]

\* ---------------------------------------------------------------- C20
\* C20: a close with an unlisted or absent code triggers nothing: the
\* registry, the records (status, counters, flags), the timers, the suspended
\* calls and the store stay as they are, and no purge is invoked.
C20_UnknownCloseDoesNothing ==
  [][\A id \in Ids :
       (HeardClose(out', id, {"unknown"}) /\ sessions[id] # NoSock)
         => /\ sessions' = sessions
            /\ rec' = rec
            /\ sessionTimers' = sessionTimers
            /\ tasks' = tasks
            /\ store' = store
            /\ PurgeCalls(out', id) = 0
            /\ Len(out') = 1]_vars

C20_Witness ==
  /\ HeardClose(out, "a", {"unknown"})
  /\ sessions["a"] # NoSock
  /\ rec[sessions["a"]].status = "connected"
  /\ ~rec[sessions["a"]].isReconnecting
  /\ ~Live(sock, sessions["a"])

\* ---------------------------------------------------------------- C21
\* C21: an 'open' delivered to a listener of an id that has a record sets
\* the record's status to connected and its connectedAt, clears qr and
\* pairingCode, resets reconnectAttempts to 0 and isReconnecting to false,
\* leaves the registry as it is and emits session:connected for the id.
C21_OpenMarksRecordConnected ==
  [][\A id \in Ids :
       (Has(out', "event", id, "open") /\ sessions[id] # NoSock)
         => /\ sessions' = sessions
            /\ rec'[sessions[id]].status = "connected"
            /\ rec'[sessions[id]].connectedAt # NULL
            /\ rec'[sessions[id]].qr = NULL
            /\ rec'[sessions[id]].pairingCode = NULL
            /\ rec'[sessions[id]].reconnectAttempts = 0
            /\ ~rec'[sessions[id]].isReconnecting
            /\ rec'[sessions[id]].phoneNumber = rec[sessions[id]].phoneNumber
            /\ Has(out', "session:connected", id, "")]_vars

C21_Witness ==
  /\ Has(out, "event", "a", "open")
  /\ Has(out, "session:connected", "a", "")
  /\ sessions["a"] # NoSock
  /\ rec[sessions["a"]].status = "connected"
  /\ rec[sessions["a"]].reconnectAttempts = 0
  /\ sock[sessions["a"]].phase = "open"

\* ---------------------------------------------------------------- C22
\* C22: a connected record that went through no transient closure since it
\* was last opened survives the next transient close: the id keeps this
\* record, no kill is begun or pending for the id, and the close counts as
\* attempt 1 at most; and every open of the id's record leaves
\* reconnectAttempts at 0 and starts the count of closures afresh.  This
\* holds in every round, since no step bounds the number of rounds.
C22_ReopenedSessionSurvivesOutages ==
  [][\A id \in Ids :
       /\ (/\ HeardClose(out', id, TransientNames)
           /\ sessions[id] # NoSock
           /\ rec[sessions[id]].status = "connected"
           /\ closures.n[id] = 0)
            => /\ sessions'[id] = sessions[id]
               /\ rec'[sessions[id]].status = "connected"
               /\ rec'[sessions[id]].reconnectAttempts <= 1
               /\ ~\E t \in BagToSet(tasks') : t.kind = "kill" /\ t.id = id
               /\ PurgeCalls(out', id) = 0
       /\ (Has(out', "event", id, "open") /\ sessions[id] # NoSock)
            => /\ sessions'[id] = sessions[id]
               /\ rec'[sessions[id]].reconnectAttempts = 0
               /\ closures'.n[id] = 0]_vars

\* a connected record has just come through the first transient closure
\* since its last open: it is still the id's record, with its retry pending
C22_Witness ==
  /\ closures.on
  /\ closures.n["a"] = 1
  /\ HeardClose(out, "a", TransientNames)
  /\ sessions["a"] # NoSock
  /\ rec[sessions["a"]].status = "connected"
  /\ rec[sessions["a"]].connectedAt # NULL
  /\ rec[sessions["a"]].reconnectAttempts = 1
  /\ Len(sessionTimers["a"]) = 1
  /\ tasks = EmptyBag

\* ---------------------------------------------------------------- C23
\* the step ends the restore pass r
RestoreEnds(r) ==
  /\ r.kind = "restore"
  /\ Gone(r)
  /\ ~\E u \in BagToSet(tasks') : u.kind = "restore"

\* C23: the restore pass starts, with no phone number and one at a time,
\* the persisted ids that have no record while the registry is under
\* capacity, and a start that fails does not end it: the pass ends only when
\* none of the keys it has still to visit is such an id.
C23_RestoreContinuesAfterFailure ==
  [][\A r \in BagToSet(tasks) :
       /\ (r.kind = "restore" /\ Gone(r))
            => \A u \in BagToSet(tasks') :
                 (u.kind = "restore" /\ u.pc = "start")
                   => /\ Has(out', "call", u.id, "startSession")
                      /\ sessions[u.id] = NoSock
                      /\ RegistrySize < MAX_SESSIONS
                      /\ \E t \in BagToSet(tasks') :
                           /\ t.kind = "start" /\ t.id = u.id
                           /\ t.phone = NULL /\ t.why = "plain"
       /\ (RestoreEnds(r) /\ r.pc \in {"start", "delay"})
            => \A k \in DOMAIN RestKeys(r.why) :
                 ~(/\ sessions'[RestKeys(r.why)[k]] = NoSock
                   /\ Cardinality({i \in Ids : sessions'[i] # NoSock}) < MAX_SESSIONS)]_vars

\* ---------------------------------------------------------------- C24
\* C24: the credentials of an id that the restore pass started again stay in
\* the store: the purge is invoked for such an id only by a kill that a
\* terminal close or DELETE /session/:id began (or by a logout).
C24_RestoredCredentialsKept ==
  [][\A id \in Ids :
       (PurgeCalls(out', id) > 0 /\ store[id])
         => \/ \E t \in BagToSet(tasks) :
                 /\ t.id = id
                 /\ KillResumes(t)
                 /\ t.why \in {"terminal", "api_delete"}
            \/ \E t \in BagToSet(tasks) :
                 t.id = id /\ t.kind = "logout" /\ Gone(t)]_vars

\* ---------------------------------------------------------------- C25
\* C25: whenever no handler is suspended, what the last sessions:update
\* listed is what the registry holds: every transition that changed a
\* record's presence, status, qr or pairingCode has, by the time it is
\* complete, broadcast the list as it is after the change.
C25_BroadcastFollowsEveryChange ==
  (closures.on /\ tasks = EmptyBag) => closures.shown = Snapshot(Cur)

\* ---------------------------------------------------------------- C26
\* C26: a subscribe:session for an id whose record holds a pairing code
\* sends the code to the observer, and one for an id whose record holds a qr
\* payload has the payload rendered and sent to the observer: the replay it
\* begins ends with qr:update sent.  With no record, or a record that holds
\* neither, the handler sends nothing and begins nothing.
C26_SubscriberGetsPendingArtifact ==
  [][/\ \A id \in Ids :
          Has(out', "event", id, "subscribe")
            => LET s == sessions[id]
                   hasQr == s # NoSock /\ rec[s].qr # NULL
                   hasCode == s # NoSock /\ rec[s].pairingCode # NULL
               IN /\ hasCode <=> Has(out', "pairing:code", id, "socket")
                  /\ hasQr <=> \E t \in BagToSet(tasks') :
                                 /\ t.kind = "replay" /\ t.id = id
                                 /\ CopiesIn(t, tasks') > CopiesIn(t, tasks)
                  /\ ~hasQr => tasks' = tasks
                  /\ (~hasQr /\ ~hasCode) => Len(out') = 1
     /\ \A t \in BagToSet(tasks) :
          (t.kind = "replay" /\ Gone(t)) => Has(out', "qr:update", t.id, "socket")]_vars

\* ---------------------------------------------------------------- C27
\* the step in which a startSession call for the id returns with a record made
Created(o, id) ==
  Has(o, "return", id, "created:plain") \/ Has(o, "return", id, "created:force")

\* C27: when a start returns with success, the id has a record whose status
\* is pending_pair if the call had a phone number and pending_qr if it had
\* none, which keeps that phone number, and whose qr, pairingCode and
\* connectedAt are null, reconnectAttempts 0 and isReconnecting false.
C27_StartRegistersPendingRecord ==
  [][\A t \in BagToSet(tasks) :
       (t.kind = "start" /\ Gone(t) /\ Created(out', t.id))
         => /\ sessions'[t.id] # NoSock
            /\ sessions'[t.id] # sessions[t.id]
            /\ LET r == rec'[sessions'[t.id]] IN
                 /\ r.status = IF t.phone # NULL THEN "pending_pair" ELSE "pending_qr"
                 /\ r.phoneNumber = t.phone
                 /\ r.qr = NULL
                 /\ r.pairingCode = NULL
                 /\ r.connectedAt = NULL
                 /\ r.reconnectAttempts = 0
                 /\ ~r.isReconnecting]_vars

C27_Witness ==
  /\ Created(out, "a")
  /\ sessions["a"] # NoSock
  /\ rec[sessions["a"]].status = "pending_pair"
  /\ rec[sessions["a"]].phoneNumber # NULL
  /\ sock[sessions["a"]].phase = "connecting"
  /\ Len(sessionTimers["a"]) = 1

\* ---------------------------------------------------------------- C28
\* the step runs a part of POST /send-message
SendStep ==
  \/ \E id \in Ids : Has(out', "event", id, "request:send")
  \/ \E t \in BagToSet(tasks) : t.kind = "send" /\ Gone(t)

\* C28: no part of sendMessage (the rejection of a request, the start of a
\* send, each awaited call that returns, the failure of one) changes the
\* registry, a record, the timers, the store or a registered transport.
C28_SendChangesNoSessionState ==
  [][SendStep =>
       /\ sessions' = sessions
       /\ rec' = rec
       /\ sessionTimers' = sessionTimers
       /\ store' = store
       /\ \A id \in Ids :
            sessions[id] # NoSock => sock'[sessions[id]] = sock[sessions[id]]
       /\ \A t \in BagToSet(tasks') : t.kind # "send" => CopiesIn(t, tasks') = CopiesIn(t, tasks)
       /\ \A t \in BagToSet(tasks) : t.kind # "send" => CopiesIn(t, tasks') = CopiesIn(t, tasks)]_vars

\* a send through a connected session has just failed
C28_Witness ==
  /\ Has(out, "return", "a", "send:500")
  /\ Has(out, "message:error", "a", "")
  /\ sessions["a"] # NoSock
  /\ rec[sessions["a"]].status = "connected"

\* ---------------------------------------------------------------- C29
\* cleanupSessionSocket has acted on the transport, or the transport is closed
Released(sk, h) == ~Live(sk, h) \/ ~sk[h].listeners

\* C29: whenever a record leaves the registry (kill, terminal close, logout,
\* expiry, forced teardown), the id has no timer pending afterwards and the
\* record's transport had been released before the step that removes it.
C29_ReleasedBeforeRemoved ==
  [][\A id \in Ids :
       (sessions[id] # NoSock /\ sessions'[id] = NoSock)
         => /\ sessionTimers'[id] = << >>
            /\ Released(sock, sessions[id])]_vars

\* ---------------------------------------------------------------- C30
\* the failure codes the classification is examined on; 0 is an absent code
MaxCode == 600
CodeRange == 0 .. MaxCode

\* the classes a code falls in
ClassesOf(code) ==
  {c \in {"terminal", "transient", "restart-required"} :
     \/ c = "terminal" /\ isTerminal(code)
     \/ c = "transient" /\ isTemporary(code)
     \/ c = "restart-required" /\ isRestartRequired(code)}

\* C30: the class of a close is a function of its code alone.  Every code
\* falls in at most one of terminal, transient and restart-required (in none:
\* unknown); the terminal codes are those named loggedOut, badSession,
\* forbidden, multideviceMismatch and connectionReplaced, the transient ones
\* connectionLost, timedOut, connectionClosed and unavailableService, the
\* restart-required one restartRequired, and every other or absent code is
\* unknown.  A close handled for a record that is not reconnecting is
\* treated by its class whatever the state of the record.
C30_ClassificationIsTotalFunction ==
  /\ \A code \in CodeRange :
       /\ Cardinality(ClassesOf(code)) <= 1
       /\ isTerminal(code) <=> getDisconnectReasonName(code) \in TerminalNames
       /\ isTemporary(code) <=> getDisconnectReasonName(code) \in TransientNames
       /\ isRestartRequired(code) <=> getDisconnectReasonName(code) = "restartRequired"
       /\ ClassesOf(code) = {} <=> getDisconnectReasonName(code) = "unknown"
  /\ isTemporary(DisconnectReason.timedOut)
  /\ [][\A id \in Ids :
          (sessions[id] # NoSock /\ ~rec[sessions[id]].isReconnecting)
            => /\ HeardClose(out', id, TerminalNames)
                    => \E n \in TerminalNames : Has(out', "session:killed", id, "terminal_" \o n)
               /\ HeardClose(out', id, TransientNames)
                    => /\ rec'[sessions[id]].reconnectAttempts
                            = rec[sessions[id]].reconnectAttempts + 1
                       /\ \/ Len(sessionTimers'[id]) = Len(sessionTimers[id]) + 1
                          \/ Has(out', "session:killed", id, "max_reconnect_attempts")
               /\ HeardClose(out', id, {"restartRequired"})
                    => /\ rec'[sessions[id]].isReconnecting
                       /\ rec'[sessions[id]].reconnectAttempts
                            = rec[sessions[id]].reconnectAttempts
                       /\ Len(sessionTimers'[id]) = Len(sessionTimers[id]) + 1
               /\ HeardClose(out', id, {"unknown"})
                    => /\ rec' = rec /\ sessions' = sessions
                       /\ sessionTimers' = sessionTimers /\ tasks' = tasks]_vars

\* a close with the service-unavailable code was treated as transient
C30_Witness ==
  /\ Has(out, "event", "a", "close:unavailableService")
  /\ sessions["a"] # NoSock
  /\ rec[sessions["a"]].reconnectAttempts = 1
  /\ rec[sessions["a"]].isReconnecting
  /\ \E k \in DOMAIN sessionTimers["a"] :
       /\ sessionTimers["a"][k].kind = "backoff"
       /\ sessionTimers["a"][k].delay = UnavailableBackoffMs

\* ---------------------------------------------------------------- C31
\* the step serves a request of the kind for the id
Requested(o, id, kind) == Has(o, "event", id, "request:" \o kind)

\* C31: DELETE /session/:id, POST /session/:id/refresh and a well-formed
\* POST /send-message that name an id without a record answer
\* SESSION_NOT_FOUND and change nothing: the registry, the records, the
\* transports, the timers, the suspended calls and the store stay as they
\* are, startSession is not called and no purge is invoked.  (A send request
\* that lacks a field is answered 400 before the id is looked up.)
C31_AbsentIdReportsNotFound ==
  [][\A id \in Ids :
       (/\ \E kind \in {"delete", "refresh", "send"} : Requested(out', id, kind)
        /\ sessions[id] = NoSock)
         => /\ Program' = Program
            /\ \/ Has(out', "return", id, "SESSION_NOT_FOUND")
               \/ Requested(out', id, "send") /\ Has(out', "return", id, "send:400")
            /\ Len(out') = 2
            /\ PurgeCalls(out', id) = 0]_vars

\* a refresh of an id without a record was refused while another id has one
C31_Witness ==
  /\ Requested(out, "b", "refresh")
  /\ Has(out, "return", "b", "SESSION_NOT_FOUND")
  /\ sessions["b"] = NoSock
  /\ sessions["a"] # NoSock
  /\ rec[sessions["a"]].status = "connected"

\* ---------------------------------------------------------------- C32
\* the step ends a pairing-code request of the id with the outcome
PairingSettles(id, outcome) ==
  /\ Has(out', "event", id, "pairing:" \o outcome)
  /\ \E t \in BagToSet(tasks) : t.kind = "pair" /\ t.id = id /\ Gone(t)

\* C32: when requestPairingCode fails, pairing:error is emitted for the id
\* and nothing else happens: the registry, every record (status, pairing
\* code), the timers, the transports in use and the store are as before, no
\* pairing:code is emitted and no list is broadcast; only the request ends.
C32_PairingFailureChangesNothing ==
  [][\A id \in Ids :
       PairingSettles(id, "rejected")
         => /\ Has(out', "pairing:error", id, "")
            /\ ~Has(out', "pairing:code", id, "")
            /\ ~Has(out', "sessions:update", "*", "")
            /\ Len(out') = 2
            /\ sessions' = sessions
            /\ rec' = rec
            /\ \A h \in Handles :
                 (Live(sock, h) \/ \E i \in Ids : sessions[i] = h) => sock'[h] = sock[h]
            /\ sessionTimers' = sessionTimers
            /\ store' = store
            /\ BagCardinality(tasks') = BagCardinality(tasks) - 1]_vars

\* the request of a record that waits for its pairing code has just failed
C32_Witness ==
  /\ Has(out, "event", "a", "pairing:rejected")
  /\ Has(out, "pairing:error", "a", "")
  /\ sessions["a"] # NoSock
  /\ rec[sessions["a"]].status = "pending_pair"
  /\ rec[sessions["a"]].pairingCode = NULL
  /\ sessionTimers["a"] = << >>
  /\ tasks = EmptyBag

\* ---------------------------------------------------------------- C33
\* C33: requestPairingCode is called only from the pairing timer of a socket
\* made with a phone number, and a code that comes back is stored (and
\* announced by pairing:code) only on the record that timer belongs to,
\* while it is still the id's record and still pending_pair: never on a
\* connected or pending_qr record, nor on a record of a later start.
C33_PairingCodeOnlyOnRequestingRecord ==
  [][\A id \in Ids :
       /\ Has(out', "call", id, "requestPairingCode")
            => \E tm \in FiringTimers(id) : tm.kind = "pairing" /\ tm.phone # NULL
       /\ Has(out', "pairing:code", id, "")
            => \E t \in BagToSet(tasks) :
                 /\ t.kind = "pair" /\ t.id = id /\ Gone(t)
                 /\ t.s = sessions[id]
                 /\ rec[t.s].status = "pending_pair"
                 /\ rec'[t.s].pairingCode # NULL]_vars

\* ---------------------------------------------------------------- C34
\* C34: a qr event handled for an id whose record is pending_qr stores the
\* payload on that record and changes no other field; handled for a record
\* in any other status (pending_pair, connected) it changes nothing at all.
\* A record gets a payload in no other way.
C34_QrStoredOnlyWhilePendingQr ==
  [][/\ \A id \in Ids :
          (Has(out', "event", id, "qr") /\ sessions[id] # NoSock)
            => LET s == sessions[id] IN
                 /\ sessions' = sessions
                 /\ sessionTimers' = sessionTimers
                 /\ store' = store
                 /\ IF rec[s].status = "pending_qr"
                      THEN rec' = [rec EXCEPT ![s].qr = "QR"]
                      ELSE rec' = rec /\ tasks' = tasks /\ Len(out') = 1
     /\ \A h \in Handles :
          (rec'[h].qr # NULL /\ rec[h].qr = NULL)
            => /\ rec[h].status = "pending_qr"
               /\ \E id \in Ids : sessions[id] = h /\ Has(out', "event", id, "qr")]_vars

\* a qr event was handled for a record that waits for its pairing code
C34_Witness ==
  /\ Has(out, "event", "a", "qr")
  /\ sessions["a"] # NoSock
  /\ rec[sessions["a"]].status = "pending_pair"
  /\ rec[sessions["a"]].qr = NULL
  /\ sock[sessions["a"]].phase = "connecting"

\* ---------------------------------------------------------------- C35
\* C35: for every record the sweep finds expired it runs killSession with
\* the reason pending_expired, and the destruction goes the way of an
\* explicit kill: session:killed is emitted with that reason in the sweep's
\* own step, the transport of the record is released there (its listeners
\* detached, end() called), the credential purge of the id is invoked once
\* when the teardown returns, and the destruction ends with the timers of
\* the id cancelled and no record of the id registered.
C35_ExpiryGoesThroughKill ==
  [][/\ Has(out', "event", "*", "sweep")
          => \A id \in Ids :
               Old(id)
                 => /\ Has(out', "session:killed", id, "pending_expired")
                    /\ Released(sock', sessions[id])
                    /\ sessions'[id] = sessions[id]
                    /\ PurgeCalls(out', id) = 0
                    /\ \E u \in BagToSet(tasks') :
                         KillBegins(u) /\ u.id = id /\ u.s = sessions[id]
                           /\ u.why = "pending_expired"
     /\ \A t \in BagToSet(tasks) :
          (KillResumes(t) /\ t.why = "pending_expired")
            => /\ PurgeCalls(out', t.id) = 1
               /\ sessions' = sessions
     /\ \A t \in BagToSet(tasks) :
          KillEnds(t, "pending_expired")
            => /\ sessions'[t.id] = NoSock
               /\ sessionTimers'[t.id] = << >>
               /\ Has(out', "sessions:update", "*", "")]_vars

\* the sweep has just begun the destruction of an expired record
C35_Witness ==
  /\ Has(out, "event", "*", "sweep")
  /\ Has(out, "session:killed", "a", "pending_expired")
  /\ sessions["a"] # NoSock
  /\ StartsWithPending(rec[sessions["a"]].status)
  /\ sock[sessions["a"]].phase = "dead"
  /\ \E t \in BagToSet(tasks) :
       t.kind = "kill" /\ t.why = "pending_expired" /\ t.pc = "sock" /\ t.s = sessions["a"]

\* ---------------------------------------------------------------- C36
\* the notifications of the step that are addressed to the observers of the id
SessionEvents(o, id) ==
  {k \in DOMAIN o : /\ o[k].id = id
                    /\ o[k].ev \notin {"return", "call", "event", "sessions:update"}}

TerminalCodes == {c \in Codes : isTerminal(c)}

AttemptRange == 1 .. MAX_RECONNECT_ATTEMPTS

\* the delay the claim gives for the n-th attempt after a close with the code
ClaimedDelay(n, unavailable) ==
  Min(n * (IF unavailable THEN 5000 ELSE 2000), 30000)

\* C37: for every attempt count n from 1 to MAX_RECONNECT_ATTEMPTS and every
\* transient code the backoff delay is min(n * base, 30000) with base 5000
\* for service-unavailable and 2000 for the other codes; it never exceeds
\* 30000, does not decrease when n grows, and for equal n is strictly larger
\* for service-unavailable than for another code.  The backoff timer a
\* transient close schedules carries that delay for the count the close
\* brought the record to.
C37_BackoffDelay ==
  /\ \A n \in AttemptRange, code \in TransientCodes :
       /\ Backoff(n, code) = ClaimedDelay(n, code = DisconnectReason.unavailableService)
       /\ Backoff(n, code) <= 30000
       /\ n + 1 \in AttemptRange => Backoff(n, code) <= Backoff(n + 1, code)
       /\ code # DisconnectReason.unavailableService
            => Backoff(n, DisconnectReason.unavailableService) > Backoff(n, code)
  /\ [][\A id \in Ids :
          (/\ HeardClose(out', id, TransientNames)
           /\ sessions[id] # NoSock
           /\ ~rec[sessions[id]].isReconnecting
           /\ rec'[sessions[id]].reconnectAttempts \in AttemptRange)
            => /\ sessionTimers'[id] # << >>
               /\ LET tm == sessionTimers'[id][Len(sessionTimers'[id])] IN
                    /\ tm.kind = "backoff"
                    /\ tm.delay = ClaimedDelay(rec'[sessions[id]].reconnectAttempts,
                                               Has(out', "event", id, "close:unavailableService"))]_vars

\* a close with an ordinary transient code has scheduled the first retry
C37_Witness ==
  /\ Has(out, "event", "a", "close:connectionClosed")
  /\ sessions["a"] # NoSock
  /\ rec[sessions["a"]].reconnectAttempts = 1
  /\ sessionTimers["a"] # << >>
  /\ sessionTimers["a"][Len(sessionTimers["a"])].kind = "backoff"
  /\ sessionTimers["a"][Len(sessionTimers["a"])].delay = 2000

\* ---------------------------------------------------------------- C38
\* C38: at every instant the registry holds at most MAX_SESSIONS records.
C38_RegistryWithinCapacity == RegistrySize <= MAX_SESSIONS

\* ---------------------------------------------------------------- C39
\* the step ends the destruction t (a kill of any reason, or a logout)
DestroyEnds(t) ==
  \/ t.kind = "kill" /\ KillEnds(t, t.why)
  \/ t.kind = "logout" /\ t.pc = "redis" /\ Gone(t)

\* C39: a destruction removes only the record it looked up when it began:
\* when it ends and the id's record is by then another one, that record
\* stays registered.
C39_DestroyRemovesOnlyItsRecord ==
  [][\A t \in BagToSet(tasks) :
       (DestroyEnds(t) /\ sessions[t.id] # t.s)
         => sessions'[t.id] = sessions[t.id]]_vars

\* ---------------------------------------------------------------- C40
\* C40: at every instant a registered record whose isReconnecting is set has
\* a restart timer (backoff or restart-required) of its own pending.
C40_ReconnectingHasTimer ==
  \A id \in Ids :
    (sessions[id] # NoSock /\ rec[sessions[id]].isReconnecting)
      => \E k \in RestartTimers(id) : sessionTimers[id][k].s = sessions[id]

====
